---- MODULE Spec2Model ----
(***************************************************************************)
(* A model of src/bot.py: the Telegram download bot.  A request is one     *)
(* inbound message; the dispatcher routes it to a handler, and the link    *)
(* handler (handle_link_message) extracts a URL, posts a status message,   *)
(* downloads into a temporary directory on a worker thread, uploads the    *)
(* file as a video or a document and reports through the status message.   *)
(*                                                                         *)
(* One action is one stretch of the coroutine between two awaits, with the *)
(* awaited call's outcome.  Every chat-platform call may be accepted or    *)
(* rejected (it raises); the engine may raise or return.  Opening the      *)
(* downloaded file for reading is assumed to succeed when the file exists. *)
(***************************************************************************)
EXTENDS Integers, Sequences, FiniteSets, TLC

(* Python's None where a string is expected; it prints as "None". *)
None == "None"

(* A text that is absent (None) or empty: both are falsy in "a or b". *)
NoText == <<>>

(* ------------------------------------------------------------------ *)
(* Bounds of the model.                                                *)
(* ------------------------------------------------------------------ *)

(* A message text is the concatenation of at most MaxPieces pieces. *)
MaxPieces == 3

(* ------------------------------------------------------------------ *)
(* Configuration.                                                      *)
(* ------------------------------------------------------------------ *)

MAX_SEND_BYTES == 50 * 1024 * 1024

(* os.path.getsize raised OSError: size = None. *)
SizeNone == -1

(* ------------------------------------------------------------------ *)
(* Message texts, as sequences of characters.                          *)
(* ------------------------------------------------------------------ *)

(* The characters \s matches, among those the texts are built from. *)
Whitespace == {" ", "\n"}

SchemeHttp == <<"h", "t", "t", "p", ":", "/", "/">>
SchemeHttps == <<"h", "t", "t", "p", "s", ":", "/", "/">>

Pieces ==
    { SchemeHttp \o <<"a">>,
      SchemeHttps \o <<"b">>,
      SchemeHttp,
      <<" ">>,
      <<"x">> }

(* Texts with a line break between, before and after URLs. *)
LineBreakTexts ==
    { SchemeHttp \o <<"a", "\n">> \o SchemeHttps \o <<"b">>,
      <<"\n">> \o SchemeHttps \o <<"b", "\n">>,
      SchemeHttp \o <<"\n", "x">> }

RECURSIVE TextsUpTo(_)
TextsUpTo(n) ==
    IF n = 0 THEN {<<>>}
    ELSE LET shorter == TextsUpTo(n - 1)
         IN  shorter \cup {t \o p : t \in shorter, p \in Pieces}

CommandTexts ==
    { <<"/", "s", "t", "a", "r", "t">>,
      <<"/", "h", "e", "l", "p">>,
      <<"/", "h", "e", "l", "p", " ">> \o SchemeHttp \o <<"a">>,
      <<"/", "x">> }

(* The messages the platform delivers: text messages (a text message has  *)
(* a non-empty text), and media messages with or without a caption.       *)
Messages ==
    {[text |-> t, caption |-> NoText] :
        t \in (TextsUpTo(MaxPieces) \ {NoText}) \cup LineBreakTexts \cup CommandTexts}
    \cup {[text |-> NoText, caption |-> c] : c \in {NoText, SchemeHttp \o <<"a">>}}

(* ------------------------------------------------------------------ *)
(* URL_RE = https?://[^\s]+ and findall.                               *)
(* ------------------------------------------------------------------ *)

IsPrefixAt(t, i, p) ==
    /\ i + Len(p) - 1 <= Len(t)
    /\ \A k \in 1..Len(p) : t[i + k - 1] = p[k]

(* Length of "https?://" matched at position i, 0 when it does not match. *)
SchemeLen(t, i) ==
    IF IsPrefixAt(t, i, SchemeHttps) THEN Len(SchemeHttps)
    ELSE IF IsPrefixAt(t, i, SchemeHttp) THEN Len(SchemeHttp)
    ELSE 0

(* Last index of the greedy run [^\s]* starting at j (j - 1 when empty). *)
RECURSIVE RunEnd(_, _)
RunEnd(t, j) ==
    IF j > Len(t) \/ t[j] \in Whitespace THEN j - 1 ELSE RunEnd(t, j + 1)

(* The pattern with [^\s]* for [^\s]+: the scheme alone is a match. *)
MatchEndEmptyRun(t, i) ==
    LET n == SchemeLen(t, i)
    IN  IF n = 0 THEN 0 ELSE RunEnd(t, i + n)

(* Last index of the match of URL_RE starting at i, 0 when none starts there. *)
MatchEnd(t, i) ==
    LET n == SchemeLen(t, i)
    IN  IF n = 0 THEN 0
        ELSE LET e == RunEnd(t, i + n)
             IN  IF e >= i + n THEN e ELSE 0

(* re.findall: the non-overlapping matches, scanning left to right from i. *)
RECURSIVE FindAllFrom(_, _)
FindAllFrom(t, i) ==
    IF i > Len(t) THEN <<>>
    ELSE LET e == MatchEnd(t, i)
         IN  IF e = 0 THEN FindAllFrom(t, i + 1)
             ELSE <<SubSeq(t, i, e)>> \o FindAllFrom(t, e + 1)

FindAll(t) == FindAllFrom(t, 1)

(* str.strip(): leading and trailing whitespace removed. *)
RECURSIVE LStrip(_)
LStrip(s) ==
    IF s # <<>> /\ Head(s) \in Whitespace THEN LStrip(Tail(s)) ELSE s

RECURSIVE RStrip(_)
RStrip(s) ==
    IF s # <<>> /\ s[Len(s)] \in Whitespace THEN RStrip(SubSeq(s, 1, Len(s) - 1)) ELSE s

Strip(s) == RStrip(LStrip(s))

(* text = msg.text or msg.caption or "" *)
EffectiveText(m) ==
    IF m.text # NoText THEN m.text
    ELSE IF m.caption # NoText THEN m.caption
    ELSE <<>>

(* The last match taken for the first. *)
LastUrl(urls) == Strip(urls[Len(urls)])

(* url = urls[0].strip() *)
FirstUrl(urls) == Strip(urls[1])

(* ------------------------------------------------------------------ *)
(* main: the handlers, tried in the order they were added.             *)
(* ------------------------------------------------------------------ *)

(* The command word of a text that starts with a bot command, else <<>>. *)
CommandWord(text) ==
    IF text # NoText /\ text[1] = "/" THEN SubSeq(text, 2, RunEnd(text, 2)) ELSE <<>>

(* filters.COMMAND *)
IsCommand(m) == CommandWord(m.text) # <<>>

(* filters.TEXT *)
HasText(m) == m.text # NoText

(* The text handler added first and without "& ~filters.COMMAND". *)
RouteTextFirst(m) == IF m.text # NoText THEN "handle_link_message" ELSE "unknown"

Route(m) ==
    IF CommandWord(m.text) = <<"s", "t", "a", "r", "t">> THEN "start"
    ELSE IF CommandWord(m.text) = <<"h", "e", "l", "p">> THEN "help_cmd"
    ELSE IF HasText(m) /\ ~IsCommand(m) THEN "handle_link_message"
    ELSE "unknown"

(* ------------------------------------------------------------------ *)
(* The extraction engine and the file system, as run_yt_dlp sees them. *)
(* ------------------------------------------------------------------ *)

Reqs == {"r1", "r2"}

(* The names tempfile can give a directory (prefix tg_dl_). *)
DirNames == {"tg_dl_1", "tg_dl_2"}
NoDir == "-"

(* prepare_filename(info): the name the output template gives; the file  *)
(* the engine wrote may have another extension after a merge.            *)
TemplateName == "id.mp4"
MergedName == "id.mkv"
PartialName == "id.mp4.part"

NoPath == [dir |-> NoDir, name |-> ""]

(* The sizes a produced file may have. *)
Sizes == {0, 1, MAX_SEND_BYTES - 1, MAX_SEND_BYTES, MAX_SEND_BYTES + 1}

Reasons == {"Private video", "Unsupported URL"}

CanonicalUrl == SchemeHttps \o <<"c">>

(* The metadata record of the engine: each key may be missing. *)
Infos ==
    [title : {None, "Title"}, uploader : {None, "Uploader"},
     webpage_url : {NoText, CanonicalUrl}]

NoInfo == [title |-> None, uploader |-> None, webpage_url |-> NoText]

(* The directory relative paths are resolved in. *)
CurrentDir == "."

YTDLP_OPTS_BASE ==
    [format |-> "bestvideo+bestaudio/best",
     noplaylist |-> TRUE,
     outtmpl |-> [dir |-> CurrentDir, name |-> "%(id)s.%(ext)s"],
     quiet |-> TRUE,
     no_warnings |-> TRUE]

(* The options with the output template left relative. *)
RunOptsNoJoin(outdir) == [k \in DOMAIN YTDLP_OPTS_BASE \cup {"retries"} |->
                            IF k = "retries" THEN 2 ELSE YTDLP_OPTS_BASE[k]]

(* run_yt_dlp: the options YoutubeDL is given for a download into outdir. *)
RunOpts(outdir) ==
    [k \in DOMAIN YTDLP_OPTS_BASE \cup {"retries"} |->
        IF k = "retries" THEN 2
        ELSE IF k = "outtmpl" THEN [dir |-> outdir, name |-> YTDLP_OPTS_BASE.outtmpl.name]
        ELSE YTDLP_OPTS_BASE[k]]

(* written: the names of the files the run left in outdir. *)
NoResult == [kind |-> "none", reason |-> "", info |-> NoInfo, file |-> NoPath, written |-> {}]

(* ------------------------------------------------------------------ *)
(* State.                                                              *)
(* ------------------------------------------------------------------ *)

VARIABLES
    pc,          \* where each request's handling stands
    msg,         \* the inbound message of each request
    url,         \* handle_link_message: url
    status_msg,  \* handle_link_message: status_msg, an index of chat (0: none)
    tmpdir,      \* handle_link_message: tmpdir
    result,      \* what the worker thread running run_yt_dlp ended with
    size,        \* handle_link_message: size
    chat,        \* the messages the bot has sent, in order
    dirs,        \* file system: the temporary directories that exist
    files,       \* file system: the files that exist, with their sizes
    trace,       \* per request: the calls made so far, with their outcomes
    exit         \* per request: how the handler ended

vars == <<pc, msg, url, status_msg, tmpdir, result, size, chat, dirs, files, trace, exit>>

NoMsg == [text |-> NoText, caption |-> NoText]

Init ==
    /\ pc = [r \in Reqs |-> "absent"]
    /\ msg = [r \in Reqs |-> NoMsg]
    /\ url = [r \in Reqs |-> NoText]
    /\ status_msg = [r \in Reqs |-> 0]
    /\ tmpdir = [r \in Reqs |-> NoDir]
    /\ result = [r \in Reqs |-> NoResult]
    /\ size = [r \in Reqs |-> SizeNone]
    /\ chat = <<>>
    /\ dirs = {}
    /\ files = {}
    /\ trace = [r \in Reqs |-> <<>>]
    /\ exit = [r \in Reqs |-> "running"]

(* ------------------------------------------------------------------ *)
(* Message bodies and the chat platform.                               *)
(* ------------------------------------------------------------------ *)

Event(op, ok, body) == [op |-> op, ok |-> ok, body |-> body]

NoBody == [kind |-> "-"]

(* A message the bot sent: reply_text, reply_video or reply_document. *)
Sent(r, type, body) == [req |-> r, type |-> type, body |-> body, deleted |-> FALSE]

(* Message.edit_text and Message.delete, applied by the platform. *)
Edited(c, i, body) == [c EXCEPT ![i].body = body]
Deleted(c, i) == [c EXCEPT ![i].deleted = TRUE]

(* A clean-up written after the block, which an exception skips. *)
DirsAfterReturnOnly(d, how) == IF how = "returned" THEN dirs \ {d} ELSE dirs

(* Leaving "with tempfile.TemporaryDirectory()", by return or by an      *)
(* exception (how): the directory and the files in it are removed.       *)
DirsAfterExit(d, how) == dirs \ {d}
FilesAfterExit(d, how) == {f \in files : f.dir # d}

(* The handler ends: how is "returned" or "raised". *)
Finish(r, how) ==
    /\ pc' = [pc EXCEPT ![r] = "done"]
    /\ exit' = [exit EXCEPT ![r] = how]

Outcome(ok) == IF ok THEN "returned" ELSE "raised"

Log(r, e) == trace' = [trace EXCEPT ![r] = Append(@, e)]

(* ------------------------------------------------------------------ *)
(* The dispatcher and the three one-reply handlers.                    *)
(* ------------------------------------------------------------------ *)

(* A message arrives and is handed to the first handler that accepts it. *)
Receive(r) ==
    /\ pc[r] = "absent"
    /\ \E m \in Messages :
        /\ msg' = [msg EXCEPT ![r] = m]
        /\ pc' = [pc EXCEPT ![r] = Route(m)]
    /\ UNCHANGED <<url, status_msg, tmpdir, result, size, chat, dirs, files, trace, exit>>

(* A handler that only replies with one fixed text. *)
ReplyOnce(r, handler, kind) ==
    /\ pc[r] = handler
    /\ \E ok \in BOOLEAN :
        /\ Log(r, Event("reply_text", ok, [kind |-> kind]))
        /\ chat' = IF ok THEN Append(chat, Sent(r, "text", [kind |-> kind])) ELSE chat
        /\ Finish(r, Outcome(ok))
    /\ UNCHANGED <<msg, url, status_msg, tmpdir, result, size, dirs, files>>

Start(r) == ReplyOnce(r, "start", "start")

HelpCmd(r) == ReplyOnce(r, "help_cmd", "help")

Unknown(r) == ReplyOnce(r, "unknown", "unknown")

(* ------------------------------------------------------------------ *)
(* handle_link_message.                                                *)
(* ------------------------------------------------------------------ *)

Urls(r) == FindAll(EffectiveText(msg[r]))

(* No URL in the text: ask for a link and return. *)
ReplyNoLink(r) ==
    /\ pc[r] = "handle_link_message"
    /\ Urls(r) = <<>>
    /\ \E ok \in BOOLEAN :
        /\ Log(r, Event("reply_text", ok, [kind |-> "no_link"]))
        /\ chat' = IF ok THEN Append(chat, Sent(r, "text", [kind |-> "no_link"])) ELSE chat
        /\ Finish(r, Outcome(ok))
    /\ UNCHANGED <<msg, url, status_msg, tmpdir, result, size, dirs, files>>

PreparingBody(u) == [kind |-> "preparing", url |-> u]

(* The first URL is taken and the status message is posted. *)
PostStatus(r) ==
    /\ pc[r] = "handle_link_message"
    /\ Urls(r) # <<>>
    /\ LET u == FirstUrl(Urls(r))
       IN  /\ url' = [url EXCEPT ![r] = u]
           /\ \E ok \in BOOLEAN :
               /\ Log(r, Event("reply_text", ok, PreparingBody(u)))
               /\ IF ok
                  THEN /\ chat' = Append(chat, Sent(r, "text", PreparingBody(u)))
                       /\ status_msg' = [status_msg EXCEPT ![r] = Len(chat) + 1]
                       /\ pc' = [pc EXCEPT ![r] = "mkdtemp"]
                       /\ exit' = exit
                  ELSE /\ Finish(r, "raised")
                       /\ UNCHANGED <<chat, status_msg>>
    /\ UNCHANGED <<msg, tmpdir, result, size, dirs, files>>

(* mkdtemp gives a name that does not exist; names are random and are    *)
(* taken here never to repeat within a run.  Which of the free names it  *)
(* gives makes no difference to the handler: one is fixed.               *)
FreshDirs == DirNames \ (dirs \cup {tmpdir[q] : q \in Reqs})

(* One fixed download directory used by every request. *)
MkDTempShared == CHOOSE d \in DirNames : TRUE

MkDTemp == CHOOSE d \in FreshDirs : TRUE

(* The temporary directory is created and run_yt_dlp is handed to a thread. *)
StartDownload(r) ==
    /\ pc[r] = "mkdtemp"
    /\ FreshDirs # {}
    /\ LET d == MkDTemp IN
        /\ dirs' = dirs \cup {d}
        /\ tmpdir' = [tmpdir EXCEPT ![r] = d]
        /\ trace' = [trace EXCEPT ![r] =
               @ \o << Event("mkdtemp", TRUE, [kind |-> "dir", dir |-> d]),
                       Event("to_thread", TRUE, [kind |-> "engine", url |-> url[r], outdir |-> d,
                                                 opts |-> RunOpts(d)]) >>]
    /\ pc' = [pc EXCEPT ![r] = "downloading"]
    /\ UNCHANGED <<msg, url, status_msg, result, size, chat, files, exit>>

(* run_yt_dlp, on its thread: extract_info raises; it may leave a part file. *)
EngineRaise(r) ==
    /\ pc[r] = "downloading"
    /\ \E reason \in Reasons, partial \in BOOLEAN :
        /\ result' = [result EXCEPT ![r] =
               [kind |-> "raise", reason |-> reason, info |-> NoInfo, file |-> NoPath,
                written |-> IF partial THEN {PartialName} ELSE {}]]
        /\ files' = IF partial
                    THEN files \cup {[dir |-> tmpdir[r], name |-> PartialName, size |-> 1]}
                    ELSE files
    /\ pc' = [pc EXCEPT ![r] = "thread_done"]
    /\ UNCHANGED <<msg, url, status_msg, tmpdir, size, chat, dirs, trace, exit>>

(* What a run that returns leaves behind: the path prepare_filename gives *)
(* (inside outdir, by the output template) and the files written there.   *)
Productions(d) ==
    {[path |-> NoPath, written |-> {}],
     [path |-> [dir |-> d, name |-> TemplateName], written |-> {}],
     [path |-> [dir |-> d, name |-> TemplateName],
      written |-> {[dir |-> d, name |-> MergedName, size |-> 1]}]}
    \cup {[path |-> [dir |-> d, name |-> TemplateName],
           written |-> {[dir |-> d, name |-> TemplateName, size |-> s]}] : s \in Sizes}

(* run_yt_dlp, on its thread: returns {"info": info, "file": filename}. *)
EngineReturn(r) ==
    /\ pc[r] = "downloading"
    /\ \E info \in Infos, p \in Productions(tmpdir[r]) :
        /\ result' = [result EXCEPT ![r] =
               [kind |-> "return", reason |-> "", info |-> info, file |-> p.path,
                written |-> {f.name : f \in p.written}]]
        /\ files' = files \cup p.written
    /\ pc' = [pc EXCEPT ![r] = "thread_done"]
    /\ UNCHANGED <<msg, url, status_msg, tmpdir, size, chat, dirs, trace, exit>>

(* The handler leaves the "with" block and ends. *)
LeaveScope(r, how) ==
    /\ dirs' = DirsAfterExit(tmpdir[r], how)
    /\ files' = FilesAfterExit(tmpdir[r], how)
    /\ Finish(r, how)

(* The last report sent as a new message. *)
FinalReply(r, body) ==
    \E ok \in BOOLEAN :
        /\ Log(r, Event("reply_text", ok, body))
        /\ chat' = IF ok THEN Append(chat, Sent(r, "text", body)) ELSE chat
        /\ LeaveScope(r, Outcome(ok))

(* status_msg.edit_text(body) as the handler's last call. *)
FinalEdit(r, body) ==
    \E ok \in BOOLEAN :
        /\ Log(r, Event("edit_text", ok, body))
        /\ chat' = IF ok THEN Edited(chat, status_msg[r], body) ELSE chat
        /\ LeaveScope(r, Outcome(ok))

(* The notice without str(e). *)
FailedBodyNoReason(reason) == [kind |-> "download_failed", reason |-> ""]

FailedBody(reason) == [kind |-> "download_failed", reason |-> reason]

(* except Exception as e: the failure notice with str(e). *)
OnDownloadFailed(r) ==
    /\ pc[r] = "thread_done"
    /\ result[r].kind = "raise"
    /\ FinalEdit(r, FailedBody(result[r].reason))
    /\ UNCHANGED <<msg, url, status_msg, tmpdir, result, size>>

(* os.path.exists(filepath) *)
Exists(path) == \E f \in files : f.dir = path.dir /\ f.name = path.name

(* The test without os.path.exists. *)
FileMissingEmptyOnly(path) == path.name = ""

(* not filepath or not os.path.exists(filepath) *)
FileMissing(path) == path.name = "" \/ ~Exists(path)

NoFileBody(info) == [kind |-> "no_file", info |-> info]

ReportMissing(r) ==
    /\ pc[r] = "thread_done"
    /\ result[r].kind = "return"
    /\ FileMissing(result[r].file)
    /\ FinalEdit(r, NoFileBody(result[r].info))
    /\ UNCHANGED <<msg, url, status_msg, tmpdir, result, size>>

(* title = info.get("title") or Path(filepath).name *)
DisplayTitle(res) == IF res.info.title # None THEN res.info.title ELSE res.file.name

(* "if size": None and 0 are falsy. *)
Truthy(sz) == sz # SizeNone /\ sz # 0

(* round(n / d) to the nearest integer, ties to even, as float formatting does. *)
RoundHalfEven(n, d) ==
    LET q == n \div d
        rem == n % d
    IN  IF 2 * rem > d THEN q + 1
        ELSE IF 2 * rem < d THEN q
        ELSE IF q % 2 = 0 THEN q ELSE q + 1

(* f"{size/1024/1024:.2f} MB" if size else "unknown size", in hundredths of a MB. *)
ReadableSize(sz) ==
    IF Truthy(sz)
    THEN [known |-> TRUE,
          hundredths |-> (sz \div (1024 * 1024)) * 100
                         + RoundHalfEven((sz % (1024 * 1024)) * 100, 1024 * 1024)]
    ELSE [known |-> FALSE, hundredths |-> 0]

DownloadedBody(res, sz) ==
    [kind |-> "downloaded", title |-> DisplayTitle(res), size_text |-> ReadableSize(sz)]

(* os.path.getsize(filepath): the size on disk, or None on OSError. *)
GetSize(path) == {f.size : f \in {g \in files : g.dir = path.dir /\ g.name = path.name}} \cup {SizeNone}

(* The try block with the delete written before the upload. *)
FirstInTryDelete == "delete_status"

(* The first statement of the try block is the upload. *)
FirstInTry == "send"

(* The file is there: its size is taken and "Downloaded ..." is shown. This *)
(* edit is outside the try: rejected, the exception leaves the handler.    *)
ReportDownloaded(r) ==
    /\ pc[r] = "thread_done"
    /\ result[r].kind = "return"
    /\ ~FileMissing(result[r].file)
    /\ \E sz \in GetSize(result[r].file), ok \in BOOLEAN :
        /\ size' = [size EXCEPT ![r] = sz]
        /\ Log(r, Event("edit_text", ok, DownloadedBody(result[r], sz)))
        /\ IF ok
           THEN /\ chat' = Edited(chat, status_msg[r], DownloadedBody(result[r], sz))
                /\ pc' = [pc EXCEPT ![r] = FirstInTry]
                /\ UNCHANGED <<dirs, files, exit>>
           ELSE /\ chat' = chat
                /\ LeaveScope(r, "raised")
    /\ UNCHANGED <<msg, url, status_msg, tmpdir, result>>

(* UploadMode with the comparison turned round. *)
UploadModeFlipped(sz) == IF Truthy(sz) /\ sz >= MAX_SEND_BYTES THEN "video" ELSE "document"

(* if size and size <= MAX_SEND_BYTES: reply_video, else: reply_document *)
UploadMode(sz) == IF Truthy(sz) /\ sz <= MAX_SEND_BYTES THEN "video" ELSE "document"

UploadOp(mode) == IF mode = "video" THEN "reply_video" ELSE "reply_document"

AttachmentBody(res) ==
    [kind |-> "attachment", caption |-> DisplayTitle(res), filename |-> res.file.name]

(* The upload, inside the try: rejected, the handler goes to the except block. *)
SendFile(r) ==
    /\ pc[r] = "send"
    /\ LET mode == UploadMode(size[r])
       IN  \E ok \in BOOLEAN :
               /\ Log(r, Event(UploadOp(mode), ok, AttachmentBody(result[r])))
               /\ chat' = IF ok THEN Append(chat, Sent(r, mode, AttachmentBody(result[r]))) ELSE chat
               /\ pc' = [pc EXCEPT ![r] = IF ok THEN "delete_status" ELSE "fallback"]
    /\ UNCHANGED <<msg, url, status_msg, tmpdir, result, size, dirs, files, exit>>

(* await status_msg.delete(), still inside the try. *)
DeleteStatus(r) ==
    /\ pc[r] = "delete_status"
    /\ \E ok \in BOOLEAN :
        /\ Log(r, Event("delete", ok, NoBody))
        /\ IF ok
           THEN /\ chat' = Deleted(chat, status_msg[r])
                /\ LeaveScope(r, "returned")
           ELSE /\ pc' = [pc EXCEPT ![r] = "fallback"]
                /\ UNCHANGED <<chat, dirs, files, exit>>
    /\ UNCHANGED <<msg, url, status_msg, tmpdir, result, size>>

(* meta and the fallback text of the except block. *)
SummaryBody(res, u, sz) ==
    [kind |-> "upload_failed",
     title |-> res.info.title,
     uploader |-> res.info.uploader,
     original |-> IF res.info.webpage_url # NoText THEN res.info.webpage_url ELSE u,
     size_text |-> ReadableSize(sz)]

Fallback(r) ==
    /\ pc[r] = "fallback"
    /\ FinalEdit(r, SummaryBody(result[r], url[r], size[r]))
    /\ UNCHANGED <<msg, url, status_msg, tmpdir, result, size>>

(* ------------------------------------------------------------------ *)
(* Specification: one request is handled.                              *)
(* ------------------------------------------------------------------ *)

Step(r) ==
    \/ Receive(r)
    \/ Start(r)
    \/ HelpCmd(r)
    \/ Unknown(r)
    \/ ReplyNoLink(r)
    \/ PostStatus(r)
    \/ StartDownload(r)
    \/ EngineRaise(r)
    \/ EngineReturn(r)
    \/ OnDownloadFailed(r)
    \/ ReportMissing(r)
    \/ ReportDownloaded(r)
    \/ SendFile(r)
    \/ DeleteStatus(r)
    \/ Fallback(r)

Next == Step("r1")

Spec == Init /\ [][Next]_vars

(* The same handler in the runs where the platform accepts every text     *)
(* message and every edit; uploads and deletes may still be rejected.     *)
TextCallsAccepted ==
    \A r \in Reqs : \A i \in 1..Len(trace[r]) :
        trace[r][i].op \in {"reply_text", "edit_text"} => trace[r][i].ok

StepTextAccepted(r) ==
    \/ Receive(r)
    \/ Start(r) /\ TextCallsAccepted'
    \/ HelpCmd(r) /\ TextCallsAccepted'
    \/ Unknown(r) /\ TextCallsAccepted'
    \/ ReplyNoLink(r) /\ TextCallsAccepted'
    \/ PostStatus(r) /\ TextCallsAccepted'
    \/ StartDownload(r)
    \/ EngineRaise(r)
    \/ EngineReturn(r)
    \/ OnDownloadFailed(r) /\ TextCallsAccepted'
    \/ ReportMissing(r) /\ TextCallsAccepted'
    \/ ReportDownloaded(r) /\ TextCallsAccepted'
    \/ SendFile(r)
    \/ DeleteStatus(r)
    \/ Fallback(r) /\ TextCallsAccepted'

NextTextAccepted == StepTextAccepted("r1")

SpecTextAccepted == Init /\ [][NextTextAccepted]_vars

(* ------------------------------------------------------------------ *)
(* Specification: two requests are handled concurrently.  Each handler *)
(* runs on the event loop between its awaits and each download on its  *)
(* own thread, so the steps of the two requests interleave freely.     *)
(* The inputs are drawn from a few of each kind.                       *)
(* ------------------------------------------------------------------ *)

FewMessages ==
    {[text |-> t, caption |-> NoText] :
        t \in CommandTexts \cup {<<"x">>, SchemeHttp \o <<"a">>, SchemeHttps \o <<"b">>}}

FewInfos == {NoInfo, [title |-> "Title", uploader |-> "Uploader", webpage_url |-> CanonicalUrl]}

FewSizes == {1, MAX_SEND_BYTES + 1}

(* run_yt_dlp called in the coroutine itself: the download holds the loop. *)
DownloadOnLoop(r) == pc[r] = "downloading"

(* await asyncio.to_thread(run_yt_dlp, ...): the download of r runs on a   *)
(* worker thread and the coroutine is suspended, so r does not hold the    *)
(* event loop while it downloads.                                          *)
HoldsLoop(r) == FALSE

(* The event loop can run a step of a handler. *)
LoopFree == \A q \in Reqs : ~HoldsLoop(q)

StepFew(r) ==
    \/ LoopFree /\ Receive(r) /\ msg'[r] \in FewMessages
    \/ LoopFree /\ Start(r)
    \/ LoopFree /\ HelpCmd(r)
    \/ LoopFree /\ Unknown(r)
    \/ LoopFree /\ ReplyNoLink(r)
    \/ LoopFree /\ PostStatus(r)
    \/ LoopFree /\ StartDownload(r)
    \/ EngineRaise(r) /\ result'[r].reason = "Private video"
    \/ EngineReturn(r) /\ result'[r].info \in FewInfos /\ \A f \in files' : f.size \in FewSizes
    \/ LoopFree /\ OnDownloadFailed(r)
    \/ LoopFree /\ ReportMissing(r)
    \/ LoopFree /\ ReportDownloaded(r)
    \/ LoopFree /\ SendFile(r)
    \/ LoopFree /\ DeleteStatus(r)
    \/ LoopFree /\ Fallback(r)

NextConcurrent == \E r \in Reqs : StepFew(r)

SpecConcurrent == Init /\ [][NextConcurrent]_vars

(* ------------------------------------------------------------------ *)
(* Specification: one request is handled, in a working directory that  *)
(* may or may not hold a cookie file.                                  *)
(* ------------------------------------------------------------------ *)

CookieFile == [dir |-> CurrentDir, name |-> "cookies.txt", size |-> 1]

InitCookies ==
    /\ pc = [r \in Reqs |-> "absent"]
    /\ msg = [r \in Reqs |-> NoMsg]
    /\ url = [r \in Reqs |-> NoText]
    /\ status_msg = [r \in Reqs |-> 0]
    /\ tmpdir = [r \in Reqs |-> NoDir]
    /\ result = [r \in Reqs |-> NoResult]
    /\ size = [r \in Reqs |-> SizeNone]
    /\ chat = <<>>
    /\ dirs = {}
    /\ files \in {{}, {CookieFile}}
    /\ trace = [r \in Reqs |-> <<>>]
    /\ exit = [r \in Reqs |-> "running"]

NextCookies == StepFew("r1")

SpecCookies == InitCookies /\ [][NextCookies]_vars

(* ------------------------------------------------------------------ *)
(* What the claims speak of.                                           *)
(* ------------------------------------------------------------------ *)

Done(r) == pc[r] = "done"

(* The calls of request r, among ops, in the order they were made. *)
Calls(r, ops) == SelectSeq(trace[r], LAMBDA e : e.op \in ops)

Uploads(r) == Calls(r, {"reply_video", "reply_document"})

Made(r, op) == Len(Calls(r, {op})) > 0

HasStatus(r) == status_msg[r] # 0

StatusBody(r) == chat[status_msg[r]].body

StatusDeleted(r) == chat[status_msg[r]].deleted

SizeKnown(r) == size[r] # SizeNone

(* ------------------------------------------------------------------ *)
(* C1: when the produced file's size is known and at most              *)
(* MAX_SEND_BYTES (0 bytes included), every upload attempted is the    *)
(* video upload and the document upload is not attempted.              *)
(* The code sends a file of 0 bytes as a document.                     *)
(* ------------------------------------------------------------------ *)
C1_KnownSizeWithinLimitIsSentAsVideo ==
    \A r \in Reqs :
        (SizeKnown(r) /\ size[r] <= MAX_SEND_BYTES)
            => \A i \in 1..Len(Uploads(r)) : Uploads(r)[i].op = "reply_video"

(* ------------------------------------------------------------------ *)
(* C2: when the produced file's size is above MAX_SEND_BYTES or is     *)
(* unknown, every upload attempted is the document upload and the      *)
(* video upload is never attempted.                                    *)
(* ------------------------------------------------------------------ *)
C2_LargeOrUnknownSizeIsSentAsDocument ==
    \A r \in Reqs :
        (~SizeKnown(r) \/ size[r] > MAX_SEND_BYTES)
            => /\ \A i \in 1..Len(Uploads(r)) : Uploads(r)[i].op = "reply_document"
               /\ ~Made(r, "reply_video")

(* An upload has been attempted for a file one byte over the threshold. *)
C2_Witness ==
    \E r \in Reqs :
        /\ size[r] = MAX_SEND_BYTES + 1
        /\ Made(r, "reply_document")

UploadFailed(r) == \E i \in 1..Len(Uploads(r)) : ~Uploads(r)[i].ok

(* The URL the summary should carry: the engine's, else the requested one. *)
CanonicalOrRequested(r) ==
    IF result[r].info.webpage_url # NoText THEN result[r].info.webpage_url ELSE url[r]

(* ------------------------------------------------------------------ *)
(* C3: if the upload attempt fails, the handler makes no second upload *)
(* attempt, does not delete the status message, and ends with the      *)
(* status message showing a summary with the title, the uploader, the  *)
(* canonical (else the requested) URL and the detected size.           *)
(* The code shows "unknown size" for a detected size of 0 bytes.       *)
(* ------------------------------------------------------------------ *)
C3_UploadFailureEndsInSummary ==
    \A r \in Reqs :
        (Done(r) /\ UploadFailed(r))
            => /\ Len(Uploads(r)) = 1
               /\ ~Made(r, "delete")
               /\ ~StatusDeleted(r)
               /\ StatusBody(r).kind = "upload_failed"
               /\ StatusBody(r).title = result[r].info.title
               /\ StatusBody(r).uploader = result[r].info.uploader
               /\ StatusBody(r).original = CanonicalOrRequested(r)
               /\ StatusBody(r).size_text.known = SizeKnown(r)

(* ------------------------------------------------------------------ *)
(* C4: once a request's handling has finished, however it ended, its   *)
(* temporary directory and the files in it no longer exist.            *)
(* ------------------------------------------------------------------ *)
C4_TempDirGoneWhenDone ==
    \A r \in Reqs :
        Done(r) => /\ tmpdir[r] \notin dirs
                   /\ \A f \in files : f.dir # tmpdir[r]

(* A handler that downloaded a file has ended by an exception. *)
C4_Witness ==
    \E r \in Reqs :
        /\ Done(r)
        /\ exit[r] = "raised"
        /\ tmpdir[r] # NoDir
        /\ TemplateName \in result[r].written

EngineRaised(r) == result[r].kind = "raise"

Edits(r) == Calls(r, {"edit_text"})

UrlAt(t, i) ==
    \E p \in {SchemeHttp, SchemeHttps} :
        /\ i + Len(p) <= Len(t)
        /\ SubSeq(t, i, i + Len(p) - 1) = p
        /\ t[i + Len(p)] \notin Whitespace

UrlPlaces(t) == {i \in 1..Len(t) : UrlAt(t, i)}

(* The end of the whitespace-free run that position i lies in. *)
WordEnd(t, i) ==
    CHOOSE e \in i..Len(t) :
        /\ \A k \in i..e : t[k] \notin Whitespace
        /\ e = Len(t) \/ t[e + 1] \in Whitespace

(* The words of the text that hold a URL, each named by its end. *)
UrlWords(t) == {WordEnd(t, i) : i \in UrlPlaces(t)}

LeftmostUrl(t) ==
    LET i == CHOOSE j \in UrlPlaces(t) : \A k \in UrlPlaces(t) : j <= k
    IN  SubSeq(t, i, WordEnd(t, i))

Text(r) == EffectiveText(msg[r])

InLinkHandler(r) == pc[r] # "absent" /\ Route(msg[r]) = "handle_link_message"

EngineCalls(r) == Calls(r, {"to_thread"})

(* ------------------------------------------------------------------ *)
(* C6: for a message text in which the URL pattern has no match,       *)
(* handle_link_message makes one call, the reply asking for a link,    *)
(* and ends; it never invokes the engine, creates no temporary         *)
(* directory and posts no progress message.                            *)
(* ------------------------------------------------------------------ *)
C6_NoLinkNeverReachesEngine ==
    \A r \in Reqs :
        (InLinkHandler(r) /\ UrlPlaces(Text(r)) = {})
            => /\ EngineCalls(r) = <<>>
               /\ ~Made(r, "mkdtemp")
               /\ tmpdir[r] = NoDir
               /\ status_msg[r] = 0
               /\ \A i \in 1..Len(chat) : chat[i].req = r => chat[i].body.kind = "no_link"
               /\ \A i \in 1..Len(trace[r]) :
                    trace[r][i].op = "reply_text" /\ trace[r][i].body.kind = "no_link"
               /\ Done(r) =>
                    /\ Len(trace[r]) = 1
                    /\ trace[r][1].ok => \E i \in 1..Len(chat) : chat[i].req = r

(* A text that holds "http://" with nothing after it was answered. *)
C6_Witness ==
    \E r \in Reqs :
        /\ Done(r)
        /\ InLinkHandler(r)
        /\ UrlPlaces(Text(r)) = {}
        /\ \E i \in 1..Len(Text(r)) : IsPrefixAt(Text(r), i, SchemeHttp)
        /\ Len(chat) = 1 /\ chat[1].body.kind = "no_link"

(* ------------------------------------------------------------------ *)
(* C7: for a message text with two or more whitespace-separated URLs,  *)
(* the engine is invoked with the leftmost one and with no other: at   *)
(* most once, and once when the status message was posted.             *)
(* ------------------------------------------------------------------ *)
C7_OnlyFirstUrlIsDownloaded ==
    \A r \in Reqs :
        (InLinkHandler(r) /\ Cardinality(UrlWords(Text(r))) >= 2)
            => /\ \A i \in 1..Len(EngineCalls(r)) :
                    EngineCalls(r)[i].body.url = LeftmostUrl(Text(r))
               /\ Len(EngineCalls(r)) <= 1
               /\ (Done(r) /\ HasStatus(r)) => Len(EngineCalls(r)) = 1

(* The engine has been invoked for the text "http://a https://b". *)
C7_Witness ==
    \E r \in Reqs :
        /\ Text(r) = SchemeHttp \o <<"a", " ">> \o SchemeHttps \o <<"b">>
        /\ Len(EngineCalls(r)) = 1
        /\ Done(r)

(* The engine returned and no file stands at the path it gave. *)
ProducedNothing(r) ==
    /\ result[r].kind = "return"
    /\ result[r].file.name = "" \/ result[r].file.name \notin result[r].written

UrlFound(r) == InLinkHandler(r) /\ UrlPlaces(Text(r)) # {} /\ pc[r] # "handle_link_message"

(* The text messages the bot has sent for request r. *)
TextMessages(r) == {i \in 1..Len(chat) : chat[i].req = r /\ chat[i].type = "text"}

Delivered(r) ==
    \E i \in 1..Len(chat) : chat[i].req = r /\ chat[i].type \in {"video", "document"}

(* ------------------------------------------------------------------ *)
(* C10: when a request finishes, its status message has been deleted   *)
(* if the attachment was delivered, and still exists showing a final   *)
(* error or fallback text if the engine failed, the file was missing   *)
(* or the upload failed.                                               *)
(* The code shows the upload-failure text over a delivered attachment  *)
(* when the delete is rejected.                                        *)
(* ------------------------------------------------------------------ *)
C10_FinalStatusMatchesOutcome ==
    \A r \in Reqs :
        (Done(r) /\ HasStatus(r))
            => /\ Delivered(r) => StatusDeleted(r)
               /\ (EngineRaised(r) \/ ProducedNothing(r) \/ UploadFailed(r))
                    => /\ ~StatusDeleted(r)
                       /\ StatusBody(r).kind \in {"download_failed", "no_file", "upload_failed"}

(* The text messages of request r the user can see. *)
VisibleTexts(r) == {i \in TextMessages(r) : ~chat[i].deleted}

(* ------------------------------------------------------------------ *)
(* C11: no exception leaves handle_link_message: every request of the  *)
(* link handler ends by a normal return, whichever call failed, and a  *)
(* request that did not deliver its attachment ends with exactly one   *)
(* text message visible to the user.                                   *)
(* The code guards only the engine call and the upload: a rejected     *)
(* reply_text or edit_text raises out of the handler.                  *)
(* ------------------------------------------------------------------ *)
C11_NoExceptionLeavesHandler ==
    \A r \in Reqs :
        (Done(r) /\ InLinkHandler(r))
            => /\ exit[r] = "returned"
               /\ ~Delivered(r) => Cardinality(VisibleTexts(r)) = 1

(* ------------------------------------------------------------------ *)
(* C17: the status message shows the upload-failure fallback text only *)
(* when the upload call itself failed; when the attachment was         *)
(* delivered it never shows that text, a failed deletion of the status *)
(* message included.                                                   *)
(* The code catches a rejected status_msg.delete() in the except block *)
(* of the upload and writes the fallback text.                         *)
(* ------------------------------------------------------------------ *)
C17_FallbackOnlyAfterFailedUpload ==
    \A r \in Reqs :
        (HasStatus(r) /\ StatusBody(r).kind = "upload_failed")
            => UploadFailed(r) /\ ~Delivered(r)

FileProduced(r) ==
    /\ result[r].kind = "return"
    /\ result[r].file.name \in result[r].written

(* ------------------------------------------------------------------ *)
(* C18: a request whose engine call returned and whose produced file   *)
(* exists has made exactly one upload attempt when its handler         *)
(* finishes, also when the 'Downloaded' edit was rejected.             *)
(* The code makes that edit outside the try block, so its rejection    *)
(* ends the handler before any upload.                                 *)
(* ------------------------------------------------------------------ *)
C18_OneUploadAttemptPerProducedFile ==
    \A r \in Reqs :
        (Done(r) /\ FileProduced(r)) => Len(Uploads(r)) = 1

(* The step of the handler a logged call belongs to. *)
Phase(e) ==
    CASE e.op = "reply_text" -> IF e.body.kind = "preparing" THEN "status" ELSE "no_link"
      [] e.op = "mkdtemp" -> "mkdtemp"
      [] e.op = "to_thread" -> "engine"
      [] e.op = "edit_text" -> IF e.body.kind = "downloaded" THEN "downloaded" ELSE "terminal"
      [] e.op \in {"reply_video", "reply_document"} -> "upload"
      [] e.op = "delete" -> "delete"

(* The pairs of steps that may follow one another directly. *)
FixedOrder ==
    {<<"status", "mkdtemp">>, <<"mkdtemp", "engine">>,
     <<"engine", "downloaded">>, <<"engine", "terminal">>,
     <<"downloaded", "upload">>,
     <<"upload", "delete">>, <<"upload", "terminal">>, <<"delete", "terminal">>}

DirRemoved(r) == tmpdir[r] # NoDir /\ tmpdir[r] \notin dirs

(* ------------------------------------------------------------------ *)
(* C13: within one request of the link handler the steps happen in one *)
(* fixed order, each at most once: the URL is extracted, the status is *)
(* posted, the directory is made and the engine invoked, the engine    *)
(* has returned, the 'Downloaded' edit, the upload attempt, the status *)
(* delete or the terminal edit, and last the removal of the temporary  *)
(* directory.  No upload is attempted before the engine has returned   *)
(* a result, and the status message is not deleted before an upload    *)
(* has succeeded.                                                      *)
(* ------------------------------------------------------------------ *)
C13_StepsInFixedOrder ==
    \A r \in Reqs :
        InLinkHandler(r) =>
            /\ \A i \in 1..Len(trace[r]) :
                LET e == trace[r][i]
                IN  /\ i = 1 => /\ Phase(e) \in {"status", "no_link"}
                                /\ Phase(e) = "status" => e.body.url = url[r]
                    /\ i > 1 => /\ <<Phase(trace[r][i - 1]), Phase(e)>> \in FixedOrder
                                /\ Phase(e) # "terminal" => trace[r][i - 1].ok
                    /\ Phase(e) = "engine" => e.body.url = url[r] /\ e.body.outdir = tmpdir[r]
                    /\ Phase(e) \in {"downloaded", "upload", "delete"} => result[r].kind = "return"
                    /\ Phase(e) = "terminal" => result[r].kind # "none"
                    /\ Phase(e) = "delete" => Phase(trace[r][i - 1]) = "upload" /\ trace[r][i - 1].ok
            /\ result[r].kind # "none" => Made(r, "to_thread")
            /\ DirRemoved(r) => Done(r)

(* A request went through every step: posted, downloaded, edited,      *)
(* uploaded, deleted its status message and removed its directory.     *)
C13_Witness ==
    \E r \in Reqs :
        /\ Done(r) /\ DirRemoved(r)
        /\ Len(trace[r]) = 6
        /\ Phase(trace[r][4]) = "downloaded"
        /\ Phase(trace[r][5]) = "upload"
        /\ Phase(trace[r][6]) = "delete" /\ trace[r][6].ok

(* The upload attempt of request r has finished and its last call is   *)
(* the accepted delete of the status message or a terminal edit.       *)
UploadAndTerminalIssued(r) ==
    /\ Len(Uploads(r)) = 1
    /\ LET last == trace[r][Len(trace[r])]
       IN  \/ Phase(last) = "delete" /\ last.ok
           \/ Phase(last) = "terminal"

(* ------------------------------------------------------------------ *)
(* C19: from the engine's return with a produced file until the upload *)
(* attempt has finished and the terminal delete or edit of the status  *)
(* message has been issued, the temporary directory and the downloaded *)
(* file exist; in particular the directory exists while an upload is   *)
(* in progress.                                                        *)
(* The code removes the directory without any upload attempt when the  *)
(* 'Downloaded' edit is rejected.                                      *)
(* ------------------------------------------------------------------ *)
C19_FileKeptUntilUploadAndTerminalCall ==
    \A r \in Reqs :
        (FileProduced(r) /\ ~UploadAndTerminalIssued(r))
            => /\ tmpdir[r] \in dirs
               /\ Exists(result[r].file)

(* The text is the command "/" word, alone or followed by arguments. *)
IsCommandNamed(text, word) ==
    /\ IsPrefixAt(text, 1, <<"/">> \o word)
    /\ Len(text) > Len(word) + 1 => text[Len(word) + 2] \in Whitespace

(* The handler the claim names for a message. *)
ClaimedHandler(m) ==
    IF IsCommandNamed(m.text, <<"s", "t", "a", "r", "t">>) THEN "start"
    ELSE IF IsCommandNamed(m.text, <<"h", "e", "l", "p">>) THEN "help_cmd"
    ELSE IF m.text # NoText /\ m.text[1] # "/" THEN "handle_link_message"
    ELSE "unknown"

(* The handler a logged call was made by, told by what it sent. *)
HandlerOf(e) ==
    CASE e.body.kind = "start" -> "start"
      [] e.body.kind = "help" -> "help_cmd"
      [] e.body.kind = "unknown" -> "unknown"
      [] OTHER -> "handle_link_message"

HandlerNames == {"start", "help_cmd", "handle_link_message", "unknown"}

(* ------------------------------------------------------------------ *)
(* C15: every inbound message is dispatched to exactly one handler:    *)
(* /start to start, /help to help_cmd, a text that is not a command to *)
(* handle_link_message, and everything else (other commands, messages  *)
(* without text) to unknown.  Every call made for the message is made  *)
(* by that handler.                                                    *)
(* ------------------------------------------------------------------ *)
C15_OneHandlerPerMessage ==
    \A r \in Reqs :
        pc[r] # "absent"
            => /\ pc[r] \in HandlerNames => pc[r] = ClaimedHandler(msg[r])
               /\ pc[r] \notin HandlerNames => trace[r] # <<>>
               /\ \A i \in 1..Len(trace[r]) : HandlerOf(trace[r][i]) = ClaimedHandler(msg[r])

(* A /help command that carries a link was answered by help_cmd. *)
C15_Witness ==
    \E r \in Reqs :
        /\ Done(r)
        /\ FindAll(msg[r].text) # <<>>
        /\ Len(trace[r]) = 1
        /\ HandlerOf(trace[r][1]) = "help_cmd"

(* The options record of the i-th engine call of request r. *)
OptsOf(r, i) == EngineCalls(r)[i].body.opts

CookiePresent == CookieFile \in files

(* A format, a template inside the request's directory, no playlist    *)
(* expansion and a bounded retry count: what the claim and the code    *)
(* agree on.                                                           *)
BasicOptions(r, o) ==
    /\ {"format", "outtmpl", "noplaylist", "retries"} \subseteq DOMAIN o
    /\ o.format = "bestvideo+bestaudio/best"
    /\ o.outtmpl.dir = tmpdir[r] /\ tmpdir[r] \in DirNames
    /\ o.outtmpl.name = "%(id)s.%(ext)s"
    /\ o.noplaylist = TRUE
    /\ o.retries \in 0..3

(* ------------------------------------------------------------------ *)
(* C16 as claimed: every engine call is given the preferred format, an *)
(* output template inside the request's temporary directory, no        *)
(* playlist expansion, a bounded retry count, a socket timeout, and    *)
(* the cookie file exactly when a cookie file exists.                  *)
(* ------------------------------------------------------------------ *)
C16_OptionsWithTimeoutAndCookies ==
    \A r \in Reqs : \A i \in 1..Len(EngineCalls(r)) :
        /\ BasicOptions(r, OptsOf(r, i))
        /\ "socket_timeout" \in DOMAIN OptsOf(r, i)
        /\ CookiePresent <=> "cookiefile" \in DOMAIN OptsOf(r, i)

(* ------------------------------------------------------------------ *)
(* C16 as amended: every engine call is given the same fixed options:  *)
(* the preferred format, an output template inside the request's       *)
(* temporary directory, no playlist expansion, quiet output and a      *)
(* retry count of 2, and nothing else: no socket timeout and, whether  *)
(* a cookie file exists or not, no cookie file.                        *)
(* ------------------------------------------------------------------ *)
C16_FixedOptionsOnly ==
    \A r \in Reqs : \A i \in 1..Len(EngineCalls(r)) :
        /\ BasicOptions(r, OptsOf(r, i))
        /\ OptsOf(r, i).retries = 2
        /\ OptsOf(r, i).quiet /\ OptsOf(r, i).no_warnings
        /\ DOMAIN OptsOf(r, i) =
               {"format", "outtmpl", "noplaylist", "retries", "quiet", "no_warnings"}

(* The engine was called while a cookie file existed. *)
C16_Witness ==
    \E r \in Reqs :
        /\ Len(EngineCalls(r)) = 1
        /\ CookiePresent
        /\ "cookiefile" \notin DOMAIN OptsOf(r, 1)
        /\ OptsOf(r, 1).outtmpl.dir = "tg_dl_1"

FilesOf(q, fs) == {f \in fs : f.dir = tmpdir[q]}

(* Two requests never have the same directory or the same status message. *)
OwnResources ==
    \A r \in Reqs : \A q \in Reqs \ {r} :
        /\ tmpdir[r] # NoDir => tmpdir[r] # tmpdir[q]
        /\ status_msg[r] # 0 => status_msg[r] # status_msg[q]

(* A step that is not a step of the unfinished request q leaves q's    *)
(* directory, files, status message and data as they are.              *)
NoInterference ==
    \A q \in Reqs :
        (pc'[q] = pc[q] /\ ~Done(q))
            => /\ tmpdir'[q] = tmpdir[q]
               /\ (tmpdir[q] \in dirs') <=> (tmpdir[q] \in dirs)
               /\ FilesOf(q, files') = FilesOf(q, files)
               /\ status_msg'[q] = status_msg[q]
               /\ status_msg[q] # 0 => chat'[status_msg[q]] = chat[status_msg[q]]
               /\ url'[q] = url[q] /\ result'[q] = result[q] /\ size'[q] = size[q]

(* ------------------------------------------------------------------ *)
(* C14: concurrent requests are independent: each has its own          *)
(* temporary directory and its own status message, and no step of one  *)
(* request changes the directory, the downloaded file or the status    *)
(* message of another request in flight, also when both download the   *)
(* same URL.                                                           *)
(* ------------------------------------------------------------------ *)
C14_RequestsAreIndependent == []OwnResources /\ [][NoInterference]_vars

(* Two requests downloaded the same URL to files of the same name; one *)
(* has finished and removed its directory, the other is about to       *)
(* upload and its file is still there.                                 *)
C14_Witness ==
    /\ url["r1"] = url["r2"]
    /\ FileProduced("r1") /\ FileProduced("r2")
    /\ result["r1"].file.name = result["r2"].file.name
    /\ Done("r1") /\ DirRemoved("r1")
    /\ pc["r2"] = "send"
    /\ Exists(result["r2"].file)

====
